---- MODULE Spec2Model ----
(***************************************************************************)
(* Model of 02_deploy_and_monitor/deploy_and_monitor.ipynb.                *)
(*                                                                         *)
(* The notebook is a list of code cells run top to bottom by one kernel.   *)
(* Each action below is one code cell (the perturbation loop is a call and *)
(* a return step per iteration plus its exit).  A cell that raises stops   *)
(* the run at that cell (halted); the operator may run the stopped cell    *)
(* again.  The hosting platform is the environment: every call to it may   *)
(* fail, capture records reach the object store some time after the        *)
(* request, and report objects become listable some time after the         *)
(* monitoring job wrote them.                                              *)
(*                                                                         *)
(* Cells that only build local objects or display values (set-up,          *)
(* XGBoostModel(...), DefaultModelMonitor(...), the pygmentize and         *)
(* DataFrame.head cells, the baseline download at the end) change nothing  *)
(* the modelled cells read beyond what is folded into those cells.         *)
(***************************************************************************)
EXTENDS Naturals, Integers, Sequences, FiniteSets, TLC

\* ------------------------------------------------------------------ bounds
MaxJobs == 3         \* training jobs the account holds (locator specification)
MaxTime == 2         \* distinct creation times of training jobs
MaxRecords == 3      \* request/record counters saturate here ("this many or more")
MaxViolations == 11  \* longest violations list of a report document

\* ------------------------------------------------------- program constants
SamplingPercentage == 100   \* sampling_percentage=100
NumInferences == 1000       \* for i in range(1000)
ProgressEvery == 100        \* i % 100 == 0
SleepHundredths == 15       \* time.sleep(0.15), in hundredths of a second
NumDownloads == 3           \* monitoring_reports[0], [1], [2]

\* ----------------------------------------------------------------- helpers
Min(a, b) == IF a <= b THEN a ELSE b

\* A counter that stops at MaxRecords.
Sat(n) == Min(n, MaxRecords)

\* Whether seq `sub` occurs in seq `s` as a contiguous run (NameContains).
Contains(s, sub) ==
    \E k \in 0..(Len(s) - Len(sub)) : SubSeq(s, k + 1, k + Len(sub)) = sub

\* 's3://{}/{}/<suffix>'.format(bucket_name, prefix)
Bucket == "bucket"
Prefix == "aim362"
S3Path(suffix) == <<"s3://", Bucket, "/", Prefix, suffix>>

\* pred.endpoint: the name of the endpoint the deploy cell created.
EndpointName == "endpoint"

\* -------------------------------------------------------- training jobs
\* Job names are sequences of name parts; the base name is one part.
BaseJobName == <<"nw-traffic-classification-xgb">>
JobNames ==
    { <<"nw-traffic-classification-xgb">>,
      <<"nw-traffic-classification-xgb", "2">>,
      <<"old", "nw-traffic-classification-xgb">>,
      <<"other">> }
JobStatuses == {"Completed", "Failed", "InProgress"}
JobInfo == [status : JobStatuses, time : 1..MaxTime]

\* The platform keys training jobs by name: a job table is a function from
\* the names in use to each job's status and creation time.
JobTables ==
    UNION { [S -> JobInfo] : S \in { T \in SUBSET JobNames : Cardinality(T) <= MaxJobs } }

\* The job tables the whole-notebook specification starts from.
PipelineJobTables ==
    { <<>>,
      (<<"nw-traffic-classification-xgb">> :> [status |-> "Failed", time |-> 1]),
      (<<"nw-traffic-classification-xgb">> :> [status |-> "InProgress", time |-> 2])
          @@ (<<"other">> :> [status |-> "Completed", time |-> 1]),
      (<<"nw-traffic-classification-xgb">> :> [status |-> "Completed", time |-> 1])
          @@ (<<"nw-traffic-classification-xgb", "2">> :> [status |-> "Completed", time |-> 2])
          @@ (<<"old", "nw-traffic-classification-xgb">> :> [status |-> "Failed", time |-> 2]) }

\* list_training_jobs(NameContains=base, StatusEquals='Completed'): the names
\* the platform's filter keeps.
ListedJobsAnyStatus(js, base) == { n \in DOMAIN js : Contains(n, base) }
ListedJobs(js, base) ==
    { n \in DOMAIN js : Contains(n, base) /\ js[n].status = "Completed" }

\* SortBy='CreationTime', SortOrder='Descending': every listing of the kept
\* jobs with creation times non-increasing (the order of equal times is the
\* platform's choice).
ListTrainingJobs(js, base) ==
    LET S == ListedJobs(js, base)
        n == Cardinality(S)
    IN  { r \in [1..n -> S] :
            /\ \A a, b \in 1..n : a # b => r[a] # r[b]
            /\ \A a \in 1..n, b \in 1..n : a < b => js[r[a]].time >= js[r[b]].time }

\* describe_training_job(...)['ModelArtifacts']['S3ModelArtifacts']
S3ModelArtifacts(name) == <<"artifacts">> \o name

\* ------------------------------------------------------------ data capture
\* DataCaptureConfig(enable_capture, sampling_percentage, destination_s3_uri);
\* capture_options is left at the SDK default: request and response.
DataCaptureConfig(enable, pct, dest) ==
    [ enable_capture |-> enable,
      sampling_percentage |-> pct,
      destination_s3_uri |-> dest,
      capture_options |-> {"REQUEST", "RESPONSE"} ]
NoConfig == [ enable_capture |-> FALSE, sampling_percentage |-> 0,
              destination_s3_uri |-> <<>>, capture_options |-> {} ]

\* The configuration the deploy cell passes to deploy(...).
DeployCaptureConfigNoDestination ==
    DataCaptureConfig(TRUE, SamplingPercentage, <<>>)
DeployCaptureConfigHalf ==
    DataCaptureConfig(TRUE, SamplingPercentage \div 2, S3Path("/monitoring/datacapture"))
DeployCaptureConfig ==
    DataCaptureConfig(TRUE, SamplingPercentage, S3Path("/monitoring/datacapture"))

\* How many of n requests the endpoint records: all at 100%, none at 0% or
\* with capture off, any number in between otherwise.
CaptureOutcomes(cfg, n) ==
    IF ~cfg.enable_capture \/ cfg.sampling_percentage = 0 THEN {0}
    ELSE IF cfg.sampling_percentage >= 100 THEN {n}
    ELSE 0..n

\* A capture file: the hour folder its key lies in and the records it holds.
\* The endpoint writes under <destination>/<endpoint>/<variant>/<hour>/.
CaptureFile(h, k) == [ folder |-> h, records |-> k ]

\* The records a sequence of capture files holds.
RECURSIVE Sum(_)
Sum(s) == IF s = <<>> THEN 0 ELSE Head(s).records + Sum(Tail(s))

\* capture_file[: capture_file.rfind('/')]: the folder part of the s3:// URL
\* of a listed capture file.
CaptureFolder(file) ==
    S3Path("/monitoring/datacapture") \o << "/", EndpointName, "/", file.folder >>

\* ------------------------------------------------------------------- state
VARIABLES
    pc,                        \* the cell the run is at
    halted,                    \* the run stopped at pc on a raised error
    failure,                   \* what went wrong in the cell run last ("none")
    lastStep,                  \* the cell run last
    done,                      \* the cells completed so far, in order
    jobs,                      \* platform: the training jobs
    latest_training_job_name,  \* kernel variable
    model_path,                \* kernel variable
    modelRes,                  \* platform: the model resource
    endpoint,                  \* platform: the endpoint
    captureCfg,                \* platform: the endpoint's capture configuration
    sent,                      \* requests the endpoint served (saturating)
    captured,                  \* records the endpoint captured (saturating)
    captureStore,              \* object store: the delivered capture files, in key order
    capture_files,             \* kernel variable
    baselineData,              \* object store: the staged baseline dataset
    baseline,                  \* platform: the baselining job's result
    i,                         \* the perturbation loop's index
    inflight,                  \* predict calls of the loop awaiting their response
    slept,                     \* the delay this run of the loop has slept in all
    progress,                  \* the N of the last 'Executed N inferences.'
    postprocessor,             \* object store: the uploaded post-processor
    sched,                     \* platform: the monitoring schedule
    schedCfg,                  \* platform: the schedule's configuration
    desc_schedule_result,      \* kernel variable
    data_capture_path,         \* kernel variable
    manualJob,                 \* platform: the monitoring job the manual trigger ran
    reportDoc,                 \* the violations document, as downloaded
    reportsWritten,            \* the monitoring job has written its reports
    reports,                   \* object store: the report objects a listing shows
    monitoring_reports,        \* kernel variable
    localReports,              \* local files under monitoring/
    violations_df              \* kernel variable

vars == << pc, halted, failure, lastStep, done, jobs, latest_training_job_name,
           model_path, modelRes, endpoint, captureCfg, sent, captured,
           captureStore, capture_files, baselineData, baseline, i, inflight,
           slept, progress,
           postprocessor, sched, schedCfg, desc_schedule_result,
           data_capture_path, manualJob, reportDoc, reportsWritten, reports,
           monitoring_reports, localReports, violations_df >>

\* The variables of each part, for UNCHANGED.
runVars == << pc, halted, failure, lastStep, done >>
locatorVars == << latest_training_job_name, model_path >>
hostVars == << modelRes, endpoint, captureCfg >>
trafficVars == << sent, captured >>
captureVars == << captureStore, capture_files, data_capture_path >>
baselineVars == << baselineData, baseline >>
loopVars == << i, inflight, slept, progress >>
schedVars == << postprocessor, sched, schedCfg, desc_schedule_result >>
reportVars == << manualJob, reportDoc, reportsWritten, reports,
                 monitoring_reports, localReports, violations_df >>

\* Kernel variables not assigned yet: an empty sequence where the value is a
\* non-empty sequence, NoRows where it is a row count.
Unset == <<>>
NoRows == -1
NoSchedule == [ endpoint_input |-> "", statistics |-> <<>>, constraints |-> <<>>,
                output_s3_uri |-> <<>>, schedule_cron_expression |-> "",
                post_analytics_processor_script |-> <<>> ]
NoJob == [ data |-> <<>>, statistics |-> <<>>, constraints |-> <<>>,
           output |-> <<>>, postprocessor |-> <<>> ]
NoDescription == [ status |-> "unset", config |-> NoSchedule ]

\* The code cells in notebook order.
Cells ==
    << "locate", "deploy", "invoke", "list_capture", "copy_capture",
       "stage_baseline", "baseline", "perturb", "upload_postprocessor",
       "create_schedule", "describe_schedule", "delete_schedule",
       "list_capture_again", "manual_trigger", "list_reports",
       "download_reports", "parse_violations", "delete_endpoint" >>

\* The report objects one monitoring execution writes, in listing (key) order.
ReportArtifacts ==
    << "constraint_violations.json", "constraints.json", "statistics.json" >>

\* A report document: whether it is JSON at all, whether it has a
\* 'violations' list, and the list (one entry per violation).
Documents ==
    [ json : {TRUE}, has_list : {TRUE},
      violations : UNION { [1..n -> {"violation"}] : n \in 0..MaxViolations } ]
    \cup { [ json |-> TRUE, has_list |-> FALSE, violations |-> <<>> ],
           [ json |-> FALSE, has_list |-> FALSE, violations |-> <<>> ] }
NoDocument == [ json |-> FALSE, has_list |-> FALSE, violations |-> <<>> ]

InitRest ==
    /\ pc = "locate"
    /\ halted = FALSE
    /\ failure = "none"
    /\ lastStep = "none"
    /\ done = <<>>
    /\ latest_training_job_name = Unset
    /\ model_path = Unset
    /\ modelRes = "absent"
    /\ endpoint = "absent"
    /\ captureCfg = NoConfig
    /\ sent = 0
    /\ captured = 0
    /\ captureStore = <<>>
    /\ capture_files = Unset
    /\ baselineData = "absent"
    /\ baseline = "absent"
    /\ i = 0
    /\ inflight = 0
    /\ slept = 0
    /\ progress = 0
    /\ postprocessor = "absent"
    /\ sched = "absent"
    /\ schedCfg = NoSchedule
    /\ desc_schedule_result = NoDescription
    /\ data_capture_path = Unset
    /\ manualJob = NoJob
    /\ reportDoc = NoDocument
    /\ reportsWritten = FALSE
    /\ reports = {}
    /\ monitoring_reports = Unset
    /\ localReports = {}
    /\ violations_df = NoRows

Init ==
    /\ jobs \in PipelineJobTables
    /\ InitRest

\* ------------------------------------------------------- running a cell
\* As Raise, with the error dropped and the run not stopped.
RaiseIgnored(cell, err) ==
    /\ halted' = FALSE
    /\ failure' = err
    /\ lastStep' = cell
    /\ pc' = pc
    /\ done' = done

\* The cell `cell` raised `err`: the run stops at it.
Raise(cell, err) ==
    /\ halted' = TRUE
    /\ failure' = err
    /\ lastStep' = cell
    /\ pc' = pc
    /\ done' = done

\* The cell `cell` ran to its end and the run moves to `next`; `err` is a
\* failure the cell did not raise ("none" when nothing failed).
Complete(cell, next, err) ==
    /\ halted' = FALSE
    /\ failure' = err
    /\ lastStep' = cell
    /\ pc' = next
    /\ done' = Append(done, cell)

At(cell) == pc = cell /\ ~halted

\* The operator runs the stopped cell again (a for loop starts over).
OperatorRetry ==
    /\ halted
    /\ halted' = FALSE
    /\ failure' = "none"
    /\ i' = IF pc = "perturb" THEN 0 ELSE i
    /\ slept' = IF pc = "perturb" THEN 0 ELSE slept
    /\ UNCHANGED << pc, lastStep, done, jobs, locatorVars, hostVars, trafficVars,
                    captureVars, baselineVars, inflight, progress, schedVars,
                    reportVars >>

\* ------------------------------------------------------- Artifact Locator
\* get_latest_training_job_name(base_job_name): the first entry of the
\* listing, or the NotFound failure when the listing is empty.  The result is
\* the set of names the call may return (empty: it raises).
get_latest_training_job_name_last(js, base) ==
    { r[Len(r)] : r \in { q \in ListTrainingJobs(js, base) : Len(q) > 0 } }
get_latest_training_job_name(js, base) ==
    { r[1] : r \in { q \in ListTrainingJobs(js, base) : Len(q) > 0 } }

\* Cell: locate the latest training job and its model artifacts.
Locate ==
    /\ At("locate")
    /\ \/ \* list_training_jobs fails
          /\ Raise("locate", "ServiceError")
          /\ UNCHANGED locatorVars
       \/ \* raise Exception('Training job not found.')
          /\ get_latest_training_job_name(jobs, BaseJobName) = {}
          /\ Raise("locate", "NotFound")
          /\ UNCHANGED locatorVars
       \/ \E name \in get_latest_training_job_name(jobs, BaseJobName) :
            /\ latest_training_job_name' = name
            /\ \/ \* describe_training_job fails
                  /\ Raise("locate", "ServiceError")
                  /\ UNCHANGED model_path
               \/ /\ model_path' = S3ModelArtifacts(name)
                  /\ Complete("locate", "deploy", "none")
    /\ UNCHANGED << jobs, hostVars, trafficVars, captureVars, baselineVars,
                    loopVars, schedVars, reportVars >>

\* ------------------------------------------------------- Endpoint Deployer
\* Cell: xgboost_model.deploy(...) creates the model resource, then the
\* endpoint with the capture configuration.  Nothing is rolled back when the
\* second creation fails.
Deploy ==
    /\ At("deploy")
    /\ \/ \* creating the model fails
          /\ Raise("deploy", "ServiceError")
          /\ UNCHANGED hostVars
       \/ \* creating the endpoint fails
          /\ modelRes' = "created"
          /\ Raise("deploy", "ServiceError")
          /\ UNCHANGED << endpoint, captureCfg >>
       \/ /\ modelRes' = "created"
          /\ endpoint' = "running"
          /\ captureCfg' = DeployCaptureConfig
          /\ Complete("deploy", "invoke", "none")
    /\ UNCHANGED << jobs, locatorVars, trafficVars, captureVars, baselineVars,
                    loopVars, schedVars, reportVars >>

\* ------------------------------------------------------- Inference Client
\* pred.predict(...) `n` times in a row against a running endpoint: the
\* endpoint serves each request and records it as its configuration says.
Predicts(n) ==
    /\ endpoint = "running"
    /\ sent' = Sat(sent + n)
    /\ \E c \in CaptureOutcomes(captureCfg, n) : captured' = Sat(captured + c)

\* Cell: two predict calls.
Invoke ==
    /\ At("invoke")
    /\ \/ \* the first call fails
          /\ Raise("invoke", "ServiceError")
          /\ UNCHANGED trafficVars
       \/ \* the second call fails
          /\ Predicts(1)
          /\ Raise("invoke", "ServiceError")
       \/ /\ Predicts(2)
          /\ Complete("invoke", "list_capture", "none")
    /\ UNCHANGED << jobs, locatorVars, hostVars, captureVars, baselineVars,
                    loopVars, schedVars, reportVars >>

\* Platform: the endpoint delivers captured records to the object store, one
\* file of k records at a time, into the folder of the hour: that of the file
\* before, or a new one (folders are numbered in the order they appear).
DeliverCapture ==
    /\ endpoint = "running"
    /\ \E k \in 1..(captured - Sum(captureStore)) :
       \E h \in 1..(Len(captureStore) + 1) :
          /\ captureStore = <<>> => h = 1
          /\ captureStore # <<>> =>
                h - captureStore[Len(captureStore)].folder \in {0, 1}
          /\ captureStore' = Append(captureStore, CaptureFile(h, k))
    /\ UNCHANGED << runVars, jobs, locatorVars, hostVars, trafficVars,
                    capture_files, data_capture_path, baselineVars, loopVars,
                    schedVars, reportVars >>

\* Cell: list the endpoint's capture files.  list_objects(...).get('Contents')
\* is None when no object is under the prefix.
ListCaptureSkipMissing ==
    /\ At("list_capture")
    /\ \/ /\ Raise("list_capture", "ServiceError")
          /\ UNCHANGED capture_files
       \/ /\ capture_files' = captureStore
          /\ Complete("list_capture", "copy_capture", "none")
    /\ UNCHANGED << jobs, locatorVars, hostVars, trafficVars, captureStore,
                    data_capture_path, baselineVars, loopVars, schedVars, reportVars >>
ListCapture ==
    /\ At("list_capture")
    /\ \/ \* list_objects fails
          /\ Raise("list_capture", "ServiceError")
          /\ UNCHANGED capture_files
       \/ \* iterating None raises TypeError
          /\ captureStore = <<>>
          /\ Raise("list_capture", "TypeError")
          /\ UNCHANGED capture_files
       \/ /\ captureStore # <<>>
          /\ capture_files' = captureStore
          /\ Complete("list_capture", "copy_capture", "none")
    /\ UNCHANGED << jobs, locatorVars, hostVars, trafficVars, captureStore,
                    data_capture_path, baselineVars, loopVars, schedVars, reportVars >>

\* Cell: !aws s3 cp {capture_files[0]} ... ; !head ...  A shell command that
\* fails prints its error and the cell goes on.
CopyCapture ==
    /\ At("copy_capture")
    /\ \/ Complete("copy_capture", "stage_baseline", "ShellError")
       \/ Complete("copy_capture", "stage_baseline", "none")
    /\ UNCHANGED << jobs, locatorVars, hostVars, trafficVars, captureVars,
                    baselineVars, loopVars, schedVars, reportVars >>

\* --------------------------------------------------------------- Baseliner
\* Cell: copy the validation data to the baselining input location.
StageBaseline ==
    /\ At("stage_baseline")
    /\ \/ /\ Raise("stage_baseline", "ServiceError")
          /\ UNCHANGED baselineData
       \/ /\ baselineData' = "staged"
          /\ Complete("stage_baseline", "baseline", "none")
    /\ UNCHANGED << jobs, locatorVars, hostVars, trafficVars, captureVars,
                    baseline, loopVars, schedVars, reportVars >>

\* Cell: my_default_monitor.suggest_baseline(..., wait=True).
SuggestBaselineNoWait ==
    /\ At("baseline")
    /\ \/ /\ Raise("baseline", "ServiceError")
          /\ UNCHANGED baseline
       \/ /\ baseline' = "running"
          /\ Complete("baseline", "perturb", "none")
    /\ UNCHANGED << jobs, locatorVars, hostVars, trafficVars, captureVars,
                    baselineData, loopVars, schedVars, reportVars >>
SuggestBaseline ==
    /\ At("baseline")
    /\ \/ /\ Raise("baseline", "ServiceError")
          /\ UNCHANGED baseline
       \/ /\ baseline' = "ready"
          /\ Complete("baseline", "perturb", "none")
    /\ UNCHANGED << jobs, locatorVars, hostVars, trafficVars, captureVars,
                    baselineData, loopVars, schedVars, reportVars >>

\* ------------------------------------------- artificial-violation generator
\* `for i in range(1000)`: the loop body is entered with the next index and
\* pred.predict(...) sends its request.  The call blocks: nothing else of the
\* cell runs until PerturbReturn.
PerturbCallNoWait ==
    /\ At("perturb")
    /\ i < NumInferences
    /\ inflight' = inflight + 1
    /\ lastStep' = "perturb"
    /\ UNCHANGED << pc, halted, failure, done, i, slept, progress >>
    /\ UNCHANGED << jobs, locatorVars, hostVars, trafficVars, captureVars,
                    baselineVars, schedVars, reportVars >>
PerturbCall ==
    /\ At("perturb")
    /\ i < NumInferences
    /\ inflight = 0
    /\ inflight' = inflight + 1
    /\ lastStep' = "perturb"
    /\ UNCHANGED << pc, halted, failure, done, i, slept, progress >>
    /\ UNCHANGED << jobs, locatorVars, hostVars, trafficVars, captureVars,
                    baselineVars, schedVars, reportVars >>

\* The call returns.  When it failed the cell stops; otherwise the rest of
\* the iteration runs: time.sleep(0.15), and the progress message when i > 0
\* and i % 100 == 0.
PerturbReturn ==
    /\ At("perturb")
    /\ inflight > 0
    /\ inflight' = inflight - 1
    /\ \/ /\ Raise("perturb", "ServiceError")
          /\ UNCHANGED << trafficVars, i, slept, progress >>
       \/ /\ Predicts(1)
          /\ slept' = slept + SleepHundredths
          /\ progress' = IF i > 0 /\ i % ProgressEvery = 0 THEN i ELSE progress
          /\ i' = i + 1
          /\ lastStep' = "perturb"
          /\ UNCHANGED << pc, halted, failure, done >>
    /\ UNCHANGED << jobs, locatorVars, hostVars, captureVars, baselineVars,
                    schedVars, reportVars >>

\* The loop is exhausted: the cell ends.
PerturbExit ==
    /\ At("perturb")
    /\ i = NumInferences
    /\ inflight = 0
    /\ Complete("perturb", "upload_postprocessor", "none")
    /\ UNCHANGED << jobs, locatorVars, hostVars, trafficVars, captureVars,
                    baselineVars, loopVars, schedVars, reportVars >>

\* -------------------------------------------------------- Schedule Manager
\* Cell: upload postprocessor.py and set the report location.
UploadPostprocessor ==
    /\ At("upload_postprocessor")
    /\ \/ /\ Raise("upload_postprocessor", "ServiceError")
          /\ UNCHANGED postprocessor
       \/ /\ postprocessor' = "uploaded"
          /\ Complete("upload_postprocessor", "create_schedule", "none")
    /\ UNCHANGED << jobs, locatorVars, hostVars, trafficVars, captureVars,
                    baselineVars, loopVars, sched, schedCfg,
                    desc_schedule_result, reportVars >>

\* The locations the notebook keeps in kernel variables.
baseline_results_path == S3Path("/monitoring/baselining/results")
postprocessor_path == S3Path("/monitoring/code/postprocessor.py")
reports_path == S3Path("/monitoring/reports")

\* my_default_monitor.baseline_statistics() and .suggested_constraints(): the
\* documents the baselining job wrote to its output location.
baseline_statistics == baseline_results_path \o << "/statistics.json" >>
suggested_constraints == baseline_results_path \o << "/constraints.json" >>

\* The configuration create_monitoring_schedule(...) is called with.
ScheduleConfig ==
    [ endpoint_input |-> EndpointName,
      statistics |-> baseline_statistics,
      constraints |-> suggested_constraints,
      output_s3_uri |-> reports_path,
      schedule_cron_expression |-> "hourly",
      post_analytics_processor_script |-> postprocessor_path ]

\* Cell: my_default_monitor.create_monitoring_schedule(...).
CreateSchedule ==
    /\ At("create_schedule")
    /\ \/ /\ Raise("create_schedule", "ServiceError")
          /\ UNCHANGED << sched, schedCfg >>
       \/ /\ sched = "absent"
          /\ sched' = "active"
          /\ schedCfg' = ScheduleConfig
          /\ Complete("create_schedule", "describe_schedule", "none")
    /\ UNCHANGED << jobs, locatorVars, hostVars, trafficVars, captureVars,
                    baselineVars, loopVars, postprocessor,
                    desc_schedule_result, reportVars >>

\* Cell: desc_schedule_result = my_default_monitor.describe_schedule().
DescribeScheduleWithCleanup ==
    /\ At("describe_schedule")
    /\ \/ /\ Raise("describe_schedule", "ServiceError")
          /\ sched' = "deleted"
          /\ UNCHANGED << desc_schedule_result, schedCfg >>
       \/ /\ desc_schedule_result' = [ status |-> sched, config |-> schedCfg ]
          /\ Complete("describe_schedule", "delete_schedule", "none")
          /\ UNCHANGED << sched, schedCfg >>
    /\ UNCHANGED << jobs, locatorVars, hostVars, trafficVars, captureVars,
                    baselineVars, loopVars, postprocessor, reportVars >>
DescribeSchedule ==
    /\ At("describe_schedule")
    /\ \/ /\ Raise("describe_schedule", "ServiceError")
          /\ UNCHANGED desc_schedule_result
       \/ /\ desc_schedule_result' = [ status |-> sched, config |-> schedCfg ]
          /\ Complete("describe_schedule", "delete_schedule", "none")
    /\ UNCHANGED << jobs, locatorVars, hostVars, trafficVars, captureVars,
                    baselineVars, loopVars, postprocessor, sched, schedCfg,
                    reportVars >>

\* Cell: my_default_monitor.delete_monitoring_schedule().
DeleteScheduleStop ==
    /\ At("delete_schedule")
    /\ \/ /\ Raise("delete_schedule", "ServiceError")
          /\ UNCHANGED << sched, schedCfg >>
       \/ /\ sched = "active"
          /\ sched' = "active"
          /\ schedCfg' = [ schedCfg EXCEPT !.schedule_cron_expression = "" ]
          /\ Complete("delete_schedule", "list_capture_again", "none")
    /\ UNCHANGED << jobs, locatorVars, hostVars, trafficVars, captureVars,
                    baselineVars, loopVars, postprocessor,
                    desc_schedule_result, reportVars >>
DeleteSchedule ==
    /\ At("delete_schedule")
    /\ \/ /\ Raise("delete_schedule", "ServiceError")
          /\ UNCHANGED sched
       \/ /\ sched = "active"
          /\ sched' = "deleted"
          /\ Complete("delete_schedule", "list_capture_again", "none")
    /\ UNCHANGED << jobs, locatorVars, hostVars, trafficVars, captureVars,
                    baselineVars, loopVars, postprocessor, schedCfg,
                    desc_schedule_result, reportVars >>

\* ---------------------------------------------------------- Manual Trigger
\* Cell: list the capture files again and take the folder of the last one.
ListCaptureAgain ==
    /\ At("list_capture_again")
    /\ \/ /\ Raise("list_capture_again", "ServiceError")
          /\ UNCHANGED << capture_files, data_capture_path >>
       \/ /\ captureStore = <<>>
          /\ Raise("list_capture_again", "TypeError")
          /\ UNCHANGED << capture_files, data_capture_path >>
       \/ /\ captureStore # <<>>
          /\ capture_files' = captureStore
          /\ data_capture_path' = CaptureFolder(capture_files'[Len(capture_files')])
          /\ Complete("list_capture_again", "manual_trigger", "none")
    /\ UNCHANGED << jobs, locatorVars, hostVars, trafficVars, captureStore,
                    baselineVars, loopVars, schedVars, reportVars >>

\* statistics_path and constraints_path of the manual-trigger cells.
statistics_path == baseline_results_path \o << "/statistics.json" >>
constraints_path == baseline_results_path \o << "/constraints.json" >>

\* The monitoring job run_model_monitor_job_processor(region, instance type,
\* role, data_capture_path, statistics_path, constraints_path, reports_path,
\* postprocessor_path=postprocessor_path) is asked for.
ManualJobWholePrefix(path) ==
    [ data |-> S3Path("/monitoring/datacapture"),
      statistics |-> statistics_path,
      constraints |-> constraints_path,
      output |-> reports_path,
      postprocessor |-> postprocessor_path ]
ManualJob(path) ==
    [ data |-> path,
      statistics |-> statistics_path,
      constraints |-> constraints_path,
      output |-> reports_path,
      postprocessor |-> postprocessor_path ]

\* The job one execution of a schedule with configuration cfg runs for the
\* hour h: the endpoint's capture folder of that hour against the schedule's
\* baseline, reported to the schedule's output location.
ScheduledJob(cfg, h) ==
    [ data |-> S3Path("/monitoring/datacapture") \o << "/", cfg.endpoint_input, "/", h >>,
      statistics |-> cfg.statistics,
      constraints |-> cfg.constraints,
      output |-> cfg.output_s3_uri,
      postprocessor |-> cfg.post_analytics_processor_script ]

\* The capture files a monitoring job analyses: those in its data folder.
Analysed(job, files) ==
    { k \in 1..Len(files) : CaptureFolder(files[k]) = job.data }

\* Cell: run_model_monitor_job_processor(...): one monitoring execution, which
\* writes its report objects (the violations document among them; what it
\* holds shows when it is downloaded).
ManualTrigger ==
    /\ At("manual_trigger")
    /\ \/ /\ Raise("manual_trigger", "ServiceError")
          /\ UNCHANGED << manualJob, reportsWritten >>
       \/ /\ manualJob' = ManualJob(data_capture_path)
          /\ reportsWritten' = TRUE
          /\ Complete("manual_trigger", "list_reports", "none")
    /\ UNCHANGED << jobs, locatorVars, hostVars, trafficVars, captureVars,
                    baselineVars, loopVars, schedVars, reportDoc, reports,
                    monitoring_reports, localReports, violations_df >>

\* Platform: a written report object becomes visible to listings.
PublishReport ==
    /\ reportsWritten
    /\ \E k \in 1..Len(ReportArtifacts) :
          /\ ReportArtifacts[k] \notin reports
          /\ reports' = reports \cup {ReportArtifacts[k]}
    /\ UNCHANGED << runVars, jobs, locatorVars, hostVars, trafficVars,
                    captureVars, baselineVars, loopVars, schedVars, manualJob, reportDoc,
                    reportsWritten, monitoring_reports, localReports,
                    violations_df >>

\* ----------------------------------------------------------- Report Reader
\* list_objects(...)'s Contents for the report prefix: the visible report
\* objects in key order.
ListObjects(objects) ==
    SelectSeq(ReportArtifacts, LAMBDA a : a \in objects)

\* Cell: list the monitoring reports.  The listing call is outside the try;
\* building the list from a missing 'Contents' raises inside it, and the bare
\* except prints 'No monitoring reports found.' and lets the cell end.
ListReportsNoExcept ==
    /\ At("list_reports")
    /\ \/ /\ Raise("list_reports", "ServiceError")
          /\ UNCHANGED monitoring_reports
       \/ /\ ListObjects(reports) = <<>>
          /\ UNCHANGED monitoring_reports
          /\ Raise("list_reports", "TypeError")
       \/ /\ ListObjects(reports) # <<>>
          /\ monitoring_reports' = ListObjects(reports)
          /\ Complete("list_reports", "download_reports", "none")
    /\ UNCHANGED << jobs, locatorVars, hostVars, trafficVars, captureVars,
                    baselineVars, loopVars, schedVars, manualJob, reportDoc,
                    reportsWritten, reports, localReports, violations_df >>
ListReports ==
    /\ At("list_reports")
    /\ \/ /\ Raise("list_reports", "ServiceError")
          /\ UNCHANGED monitoring_reports
       \/ /\ ListObjects(reports) = <<>>
          /\ UNCHANGED monitoring_reports
          /\ Complete("list_reports", "download_reports", "TypeError")
       \/ /\ ListObjects(reports) # <<>>
          /\ monitoring_reports' = ListObjects(reports)
          /\ Complete("list_reports", "download_reports", "none")
    /\ UNCHANGED << jobs, locatorVars, hostVars, trafficVars, captureVars,
                    baselineVars, loopVars, schedVars, manualJob, reportDoc,
                    reportsWritten, reports, localReports, violations_df >>

\* The listed reports the download cell names: monitoring_reports[0..2], as
\* far as the list goes.
Downloadable(listing) ==
    { listing[k] : k \in 1..Min(NumDownloads, Len(listing)) }

\* Cell: three `!aws s3 cp {monitoring_reports[k]} monitoring/` lines.  A line
\* whose expression cannot be evaluated, or whose copy fails, prints an error;
\* the cell ends either way.  What the violations document holds is the
\* monitoring job's doing and shows once the document is copied.
DownloadReports ==
    /\ At("download_reports")
    /\ \E copied \in SUBSET Downloadable(monitoring_reports) :
          /\ localReports' = localReports \cup copied
          /\ IF "constraint_violations.json" \in copied
             THEN reportDoc' \in Documents
             ELSE UNCHANGED reportDoc
          /\ Complete("download_reports", "parse_violations",
                      IF Cardinality(copied) = NumDownloads
                      THEN "none" ELSE "ShellError")
    /\ UNCHANGED << jobs, locatorVars, hostVars, trafficVars, captureVars,
                    baselineVars, loopVars, schedVars, manualJob,
                    reportsWritten, reports, monitoring_reports, violations_df >>

\* json.loads(data)['violations'] and json_normalize: the outcome of reading
\* a document, and the rows of the table (one per entry of the list).
ParseOutcome(doc) ==
    IF ~doc.json THEN "ParseError"
    ELSE IF ~doc.has_list THEN "KeyError"
    ELSE "none"
json_normalize_head(list) == [ k \in 1..Min(Len(list), 10) |-> << k, list[k] >> ]
json_normalize(list) == [ k \in 1..Len(list) |-> << k, list[k] >> ]

\* Cell: read monitoring/constraint_violations.json into violations_df.
ParseViolations ==
    /\ At("parse_violations")
    /\ \/ /\ "constraint_violations.json" \notin localReports
          /\ Raise("parse_violations", "FileNotFoundError")
          /\ UNCHANGED violations_df
       \/ /\ "constraint_violations.json" \in localReports
          /\ ParseOutcome(reportDoc) # "none"
          /\ Raise("parse_violations", ParseOutcome(reportDoc))
          /\ UNCHANGED violations_df
       \/ /\ "constraint_violations.json" \in localReports
          /\ ParseOutcome(reportDoc) = "none"
          /\ violations_df' = Len(json_normalize(reportDoc.violations))
          /\ Complete("parse_violations", "delete_endpoint", "none")
    /\ UNCHANGED << jobs, locatorVars, hostVars, trafficVars, captureVars,
                    baselineVars, loopVars, schedVars, manualJob, reportDoc,
                    reportsWritten, reports, monitoring_reports, localReports >>

\* ---------------------------------------------------------------- tear down
\* Cell: pred.delete_endpoint(); pred.delete_model().
DeleteEndpoint ==
    /\ At("delete_endpoint")
    /\ \/ \* delete_endpoint fails
          /\ Raise("delete_endpoint", "ServiceError")
          /\ UNCHANGED hostVars
       \/ \* delete_model fails
          /\ endpoint' = "deleted"
          /\ Raise("delete_endpoint", "ServiceError")
          /\ UNCHANGED << modelRes, captureCfg >>
       \/ /\ endpoint' = "deleted"
          /\ modelRes' = "deleted"
          /\ Complete("delete_endpoint", "done", "none")
          /\ UNCHANGED captureCfg
    /\ UNCHANGED << jobs, locatorVars, trafficVars, captureVars, baselineVars,
                    loopVars, schedVars, reportVars >>

\* --------------------------------------------------------- specifications
Next ==
    \/ Locate
    \/ Deploy
    \/ Invoke
    \/ DeliverCapture
    \/ ListCapture
    \/ CopyCapture
    \/ StageBaseline
    \/ SuggestBaseline
    \/ PerturbCall
    \/ PerturbReturn
    \/ PerturbExit
    \/ UploadPostprocessor
    \/ CreateSchedule
    \/ DescribeSchedule
    \/ DeleteSchedule
    \/ ListCaptureAgain
    \/ ManualTrigger
    \/ PublishReport
    \/ ListReports
    \/ DownloadReports
    \/ ParseViolations
    \/ DeleteEndpoint
    \/ OperatorRetry

\* The whole notebook, from a handful of job tables.
Spec == Init /\ [][Next]_vars

\* The Artifact Locator and the deployment that consumes its result, from
\* every job table within the bounds.
InitLocator ==
    /\ jobs \in JobTables
    /\ InitRest

NextLocator ==
    \/ Locate
    \/ Deploy
    \/ OperatorRetry

SpecLocator == InitLocator /\ [][NextLocator]_vars

\* The artificial-violation generator on its own: the run has just reached
\* the loop cell (the baselining job returned), both records of the first two
\* requests are captured and one file of them is delivered and listed.
InitLoop ==
    /\ jobs \in { t \in PipelineJobTables :
                     get_latest_training_job_name(t, BaseJobName) # {} }
    /\ latest_training_job_name \in get_latest_training_job_name(jobs, BaseJobName)
    /\ model_path = S3ModelArtifacts(latest_training_job_name)
    /\ pc = "perturb"
    /\ halted = FALSE
    /\ failure = "none"
    /\ lastStep = "baseline"
    /\ done = SubSeq(Cells, 1, 7)
    /\ modelRes = "created"
    /\ endpoint = "running"
    /\ captureCfg = DeployCaptureConfig
    /\ sent = 2
    /\ captured = 2
    /\ captureStore \in { << CaptureFile(1, k) >> : k \in 1..2 }
    /\ capture_files = captureStore
    /\ baselineData = "staged"
    /\ baseline = "ready"
    /\ i = 0
    /\ inflight = 0
    /\ slept = 0
    /\ progress = 0
    /\ postprocessor = "absent"
    /\ sched = "absent"
    /\ schedCfg = NoSchedule
    /\ desc_schedule_result = NoDescription
    /\ data_capture_path = Unset
    /\ manualJob = NoJob
    /\ reportDoc = NoDocument
    /\ reportsWritten = FALSE
    /\ reports = {}
    /\ monitoring_reports = Unset
    /\ localReports = {}
    /\ violations_df = NoRows

NextLoop ==
    \/ PerturbCall
    \/ PerturbReturn
    \/ PerturbExit
    \/ DeliverCapture
    \/ OperatorRetry

\* The kernel runs the statements of a cell it has not stopped, and a call
\* sent to the endpoint comes back with a response or an error: the three
\* steps of the loop are taken when they stay possible.  Whether the
\* operator runs a stopped cell again is left open.
SpecLoop ==
    /\ InitLoop
    /\ [][NextLoop]_vars
    /\ WF_vars(PerturbCall)
    /\ WF_vars(PerturbReturn)
    /\ WF_vars(PerturbExit)

TypeOK ==
    /\ pc \in { Cells[k] : k \in 1..Len(Cells) } \cup {"done"}
    /\ halted \in BOOLEAN
    /\ sent \in 0..MaxRecords
    /\ captured \in 0..MaxRecords
    /\ Sum(captureStore) <= captured
    /\ i \in 0..NumInferences
    /\ inflight \in 0..1
    /\ slept \in 0..(SleepHundredths * NumInferences)
    /\ endpoint \in {"absent", "running", "deleted"}
    /\ modelRes \in {"absent", "created", "deleted"}
    /\ sched \in {"absent", "active", "deleted"}
    /\ violations_df \in -1..MaxViolations

\* ------------------------------------------------------------------ claims
\* The Completed jobs whose name the listing's name filter (NameContains)
\* matches against the base name.
CompletedMatches ==
    { n \in DOMAIN jobs : Contains(n, BaseJobName) /\ jobs[n].status = "Completed" }

\* C1: the job the Artifact Locator returns is a job of the account with
\* status Completed whose name matches the base name, and no matching
\* Completed job was created later; a job in any other status is never
\* returned.
C1_LatestCompleted ==
    latest_training_job_name # Unset =>
        /\ latest_training_job_name \in DOMAIN jobs
        /\ jobs[latest_training_job_name].status = "Completed"
        /\ Contains(latest_training_job_name, BaseJobName)
        /\ \A n \in CompletedMatches :
              jobs[n].time <= jobs[latest_training_job_name].time

\* A job was returned although a matching job in another status is as new or
\* newer and an older matching Completed job exists.
C1_Witness ==
    /\ latest_training_job_name # Unset
    /\ \E n \in DOMAIN jobs :
          /\ Contains(n, BaseJobName)
          /\ jobs[n].status # "Completed"
          /\ jobs[n].time >= jobs[latest_training_job_name].time
    /\ \E n \in CompletedMatches :
          jobs[n].time < jobs[latest_training_job_name].time

C3_ScheduleMachine ==
    /\ [](sched \in {"absent", "active", "deleted"})
    /\ [](pc = "delete_schedule" => sched = "active")
    /\ [][ /\ (sched = "absent" /\ sched' # "absent") =>
                (pc = "create_schedule" /\ lastStep' = "create_schedule"
                    /\ sched' = "active")
           /\ (sched = "active" /\ sched' # "active") =>
                (pc = "delete_schedule" /\ lastStep' = "delete_schedule"
                    /\ sched' = "deleted")
           /\ (pc = "delete_schedule" /\ ~halted /\ pc' # pc) =>
                (sched' = "deleted" /\ ~halted' /\ failure' = "none")
           /\ (pc = "delete_schedule" /\ ~halted /\ halted') =>
                failure' = "ServiceError"
           /\ (sched = "active" /\ sched' = "active") => schedCfg' = schedCfg
         ]_vars

\* The delete cell has run after the create cell and the schedule is deleted.
C3_Witness ==
    /\ sched = "deleted"
    /\ lastStep = "delete_schedule"
    /\ ~halted
    /\ failure = "none"
    /\ desc_schedule_result.status = "active"

\* C5: whenever the endpoint exists with capture enabled, its capture
\* configuration has a sampling percentage within 0..100 and a non-empty
\* destination, from the step that creates the endpoint on; and the
\* configuration never changes while the endpoint exists.
C5_CaptureConfig ==
    /\ []( (endpoint = "running" /\ captureCfg.enable_capture) =>
              /\ captureCfg.sampling_percentage \in 0..100
              /\ captureCfg.destination_s3_uri # <<>> )
    /\ []( "deploy" \in { done[k] : k \in 1..Len(done) } =>
              captureCfg.enable_capture )
    /\ [][ endpoint = "running" => captureCfg' = captureCfg ]_vars

\* The endpoint runs with capture enabled and has served requests.
C5_Witness ==
    /\ endpoint = "running"
    /\ captureCfg.enable_capture
    /\ sent > 0
    /\ captured > 0

\* The listing cell of the invoke phase ran against exactly two requests and
\* its listing call answered.
TwoRequestsListed ==
    /\ lastStep = "list_capture"
    /\ failure # "ServiceError"
    /\ sent = 2
    /\ (halted \/ failure = "none")

\* C6 as stated: after deploying with capture at 100% and exactly two
\* requests, listing the capture prefix yields exactly two capture records.
C6_Original ==
    (TwoRequestsListed /\ (halted \/ pc = "copy_capture")) =>
        (~halted /\ Sum(capture_files) = 2)

\* C6, amended: after deploying with capture enabled at 100% and exactly two
\* requests, the endpoint has captured exactly two records, one per request,
\* each with the request and the response payload; the capture prefix holds
\* the records delivered so far, never more than two; the listing fails with
\* no result while none is delivered, and otherwise yields the delivered
\* files, which hold both records once both are delivered.
C6_CaptureOfTwo ==
    /\ []( (endpoint = "running" /\ sent = 2) =>
              /\ captureCfg.enable_capture
              /\ captureCfg.sampling_percentage = 100
              /\ {"REQUEST", "RESPONSE"} \subseteq captureCfg.capture_options
              /\ captured = 2
              /\ Sum(captureStore) <= 2
              /\ \A k \in 1..Len(captureStore) : captureStore[k].records >= 1 )
    /\ [][ (pc = "list_capture" /\ ~halted /\ sent = 2
              /\ lastStep' = "list_capture" /\ failure' # "ServiceError"
              /\ (halted' \/ pc' # pc)) =>
                IF captureStore = <<>>
                THEN halted' /\ failure' = "TypeError" /\ capture_files' = capture_files
                ELSE /\ ~halted'
                     /\ capture_files' = captureStore
                     /\ Sum(capture_files') \in 1..2
                     /\ (Sum(captureStore) = captured => Sum(capture_files') = 2)
         ]_vars

\* Both records were delivered, in one file or two, and the listing showed
\* them.
C6_Witness ==
    /\ TwoRequestsListed
    /\ ~halted
    /\ pc = "copy_capture"
    /\ Sum(capture_files) = 2

\* Whether sequence s is an initial part of sequence t.
IsPrefix(s, t) == Len(s) <= Len(t) /\ SubSeq(t, 1, Len(s)) = s

\* C7: the cells complete in notebook order, each once, none skipped: the
\* completed cells are always an initial part of the notebook and the run is
\* at the first cell not completed; inference requests are only made while
\* the endpoint runs; and the schedule exists only once the baselining job
\* has completed.
C7_LinearOrder ==
    /\ [](IsPrefix(done, Cells))
    /\ [](IF Len(done) < Len(Cells) THEN pc = Cells[Len(done) + 1] ELSE pc = "done")
    /\ [](lastStep \in {"none"} \cup { Cells[k] : k \in 1..Len(Cells) })
    /\ [](pc \in {"invoke", "perturb"} => endpoint = "running")
    /\ [](sent > 0 => endpoint # "absent")
    /\ [](sched # "absent" => baseline = "ready")
    /\ [][ (sent' # sent \/ i' > i) => (endpoint = "running" /\ endpoint' = "running") ]_vars
    /\ [][ done' # done => (~halted /\ done' = Append(done, pc) /\ lastStep' = pc) ]_vars

\* A run that completed every cell.
C7_Witness ==
    /\ pc = "done"
    /\ done = Cells
    /\ endpoint = "deleted"

\* The cells whose failures are not raised: shell-command lines, and the
\* report listing with its bare except.
ShellCells == {"copy_capture", "download_reports"}

\* C8 as stated: every failed platform call (ServiceError), missing listing
\* result (TypeError) or parse failure (ParseError) stops the step with an
\* error raised to the operator; none is caught with the step completing.
C8_Original ==
    failure \in {"ServiceError", "TypeError", "ParseError"} => halted

\* C8, amended: every failure of a step stops the run at that step with the
\* error raised, the step is not completed and is not tried again by the
\* code, except that the report listing cell catches a missing listing
\* result and completes, and that a failing shell-command line (aws s3 cp)
\* lets its cell complete.
C8_FailuresRaised ==
    /\ []( (failure # "none" /\ ~halted) =>
              \/ (lastStep = "list_reports" /\ failure = "TypeError")
              \/ (lastStep \in ShellCells /\ failure = "ShellError") )
    /\ []( halted => (failure # "none" /\ pc = lastStep
                        /\ failure \notin {"ShellError"}) )
    /\ [][ (~halted /\ halted') =>
              (pc' = pc /\ done' = done /\ lastStep' = pc) ]_vars
    /\ [][ (halted /\ ~halted') =>
              (pc' = pc /\ done' = done /\ failure' = "none"
                 /\ UNCHANGED << hostVars, trafficVars, captureVars, baselineVars,
                                 schedVars, reportVars >>) ]_vars
    /\ [][ (lastStep' = "list_reports" /\ pc = "list_reports" /\ ~halted
              /\ reports = {} /\ failure' # "ServiceError"
              /\ (halted' \/ pc' # pc)) =>
              (failure' = "TypeError" /\ ~halted' /\ pc' = "download_reports"
                 /\ monitoring_reports' = monitoring_reports) ]_vars

\* A parse failure stopped the run at the violations cell.
C8_Witness ==
    /\ halted
    /\ failure = "ParseError"
    /\ lastStep = "parse_violations"
    /\ violations_df = NoRows

\* C9: once the endpoint is deployed, a step that fails (raised or not)
\* leaves the endpoint, the model and the schedule as they were; the endpoint
\* stops running only by the delete-endpoint cell; so a run stopped before
\* that cell still has its endpoint running.
C9_NoCleanup ==
    /\ [][ (endpoint = "running" /\ pc # "delete_endpoint"
              /\ failure' # "none" /\ lastStep' = pc /\ (halted' \/ pc' # pc)) =>
              UNCHANGED << endpoint, modelRes, captureCfg, sched, schedCfg >> ]_vars
    /\ [][ (endpoint = "running" /\ endpoint' # "running") =>
              (pc = "delete_endpoint" /\ lastStep' = "delete_endpoint"
                 /\ endpoint' = "deleted") ]_vars
    /\ [][ (modelRes = "created" /\ modelRes' # "created") =>
              (pc = "delete_endpoint" /\ endpoint' = "deleted") ]_vars
    /\ []( ("deploy" \in { done[k] : k \in 1..Len(done) }
              /\ "parse_violations" \notin { done[k] : k \in 1..Len(done) }) =>
              (endpoint = "running" /\ modelRes = "created") )

\* The run stopped on a failure with the endpoint running and the schedule
\* still active.
C9_Witness ==
    /\ halted
    /\ failure = "ServiceError"
    /\ endpoint = "running"
    /\ modelRes = "created"
    /\ sched = "active"

\* The violations cell has run on a downloaded document.
ViolationsRead ==
    /\ lastStep = "parse_violations"
    /\ "constraint_violations.json" \in localReports
    /\ (halted \/ pc = "delete_endpoint")

\* C10: reading a well-formed violations document gives a table with one row
\* per entry of its violations list, for every length of the list; reading a
\* malformed document raises the parse error and assigns no table.
C10_ReportRows ==
    ViolationsRead =>
        /\ (reportDoc.json /\ reportDoc.has_list) =>
              /\ ~halted
              /\ violations_df = Len(reportDoc.violations)
        /\ ~reportDoc.json =>
              /\ halted
              /\ failure = "ParseError"
              /\ violations_df = NoRows

\* A document with more violations than the display shows was read.
C10_Witness ==
    /\ ViolationsRead
    /\ ~halted
    /\ violations_df = Len(reportDoc.violations)
    /\ violations_df > 10

C12_SequentialCalls ==
    /\ [](inflight \in {0, 1})
    /\ [](inflight = 1 => (pc = "perturb" /\ ~halted /\ i < NumInferences))
    /\ [](slept = SleepHundredths * i)
    /\ [][ i' # i =>
              \/ /\ i' = i + 1
                 /\ inflight = 1 /\ inflight' = 0
                 /\ slept' = slept + SleepHundredths
              \/ (i' = 0 /\ halted) ]_vars
    /\ [][ inflight' > inflight => (inflight = 0 /\ i' = i /\ i < NumInferences) ]_vars
    /\ [][ (pc = "perturb" /\ pc' # "perturb") =>
              (i = NumInferences /\ inflight = 0 /\ ~halted /\ i' = i) ]_vars
    /\ []("perturb" \in { done[k] : k \in 1..Len(done) } =>
              (i = NumInferences /\ slept = SleepHundredths * NumInferences))
    /\ [](At("perturb") => ENABLED (PerturbCall \/ PerturbReturn \/ PerturbExit))
    /\ ([]~halted) => <>(pc # "perturb")

\* The loop cell ended after its 1000 calls.
C12_Witness ==
    /\ pc = "upload_postprocessor"
    /\ lastStep = "perturb"
    /\ i = NumInferences
    /\ inflight = 0
    /\ slept = SleepHundredths * NumInferences
    /\ ~halted

\* A capture listing cell runs and its listing call answers.
ListingStep ==
    /\ pc \in {"list_capture", "list_capture_again"}
    /\ ~halted
    /\ lastStep' = pc
    /\ (halted' \/ pc' # pc)
    /\ failure' # "ServiceError"

\* C13: a capture listing cell run while the capture prefix holds no object
\* stops with the error of iterating the missing Contents, assigns nothing to
\* capture_files and changes nothing on the platform; until the first listing
\* cell has completed capture_files has no value; run while the prefix holds
\* objects (as after delivery, on the operator's re-run) the cell completes
\* and capture_files is every delivered capture file of the endpoint.
C13_ListingFailsUntilDelivered ==
    /\ [][ (ListingStep /\ captureStore = <<>>) =>
              /\ halted'
              /\ failure' = "TypeError"
              /\ pc' = pc
              /\ done' = done
              /\ capture_files' = capture_files
              /\ UNCHANGED << jobs, hostVars, trafficVars, captureStore,
                              baselineVars, schedVars, reportVars >> ]_vars
    /\ [][ (ListingStep /\ captureStore # <<>>) =>
              /\ ~halted'
              /\ failure' = "none"
              /\ done' = Append(done, pc)
              /\ capture_files' = captureStore
              /\ Len(capture_files') >= 1
              /\ captureStore' = captureStore ]_vars
    /\ []("list_capture" \notin { done[k] : k \in 1..Len(done) } =>
              capture_files = Unset)
    /\ [][ (halted /\ ~halted' /\ pc \in {"list_capture", "list_capture_again"}) =>
              (pc' = pc /\ capture_files' = capture_files
                 /\ captureStore' = captureStore) ]_vars

\* The first listing cell stopped on the missing Contents, nothing was
\* assigned, and the capture files have been delivered since.
C13_Witness ==
    /\ halted
    /\ failure = "TypeError"
    /\ lastStep = "list_capture"
    /\ pc = "list_capture"
    /\ capture_files = Unset
    /\ Len(captureStore) = 2
    /\ Sum(captureStore) = captured

\* C14 as stated: whenever the loop prints 'Executed N inferences.', exactly N
\* calls of this run of the loop have been made, and a message is printed
\* for every 100th call up to the 1000th: when the loop is exhausted the last
\* message printed is that of 1000.
C14_Original ==
    /\ [][ progress' # progress => progress' = i' ]_vars
    /\ [](i = NumInferences => progress = NumInferences)

\* 'Executed 100 inferences.' has just been printed, with 101 calls made.
C14_Witness ==
    /\ progress = ProgressEvery
    /\ i = ProgressEvery + 1
    /\ inflight = 0
    /\ lastStep = "perturb"

\* C15: the report listing cell, run while no report object is listable and
\* its listing call answering, does not stop the run: it completes and leaves
\* monitoring_reports without a value; the download cell never stops the run
\* either, copies nothing but the first three listed reports, and completes
\* without a failure only when at least three reports were listed, having
\* then copied exactly the first three.
C15_ListAndDownload ==
    /\ [][ (pc = "list_reports" /\ ~halted /\ lastStep' = pc
               /\ (halted' \/ pc' # pc) /\ failure' # "ServiceError"
               /\ ListObjects(reports) = <<>>) =>
              /\ ~halted'
              /\ pc' = "download_reports"
              /\ done' = Append(done, "list_reports")
              /\ monitoring_reports' = Unset ]_vars
    /\ []("list_reports" \notin { done[k] : k \in 1..Len(done) } =>
              monitoring_reports = Unset)
    /\ [](pc = "download_reports" => (~halted /\ localReports = {}))
    /\ [][ (pc = "download_reports" /\ lastStep' = pc) =>
              /\ ~halted'
              /\ pc' = "parse_violations"
              /\ localReports' \subseteq
                    { monitoring_reports[k] :
                        k \in 1..Min(NumDownloads, Len(monitoring_reports)) }
              /\ failure' = "none" =>
                    /\ Len(monitoring_reports) >= NumDownloads
                    /\ localReports' =
                          { monitoring_reports[k] : k \in 1..NumDownloads }
              /\ Len(monitoring_reports) < NumDownloads => failure' = "ShellError"
         ]_vars

\* The listing found no report and completed; the download cell then ran
\* with monitoring_reports unassigned and copied nothing.
C15_Witness ==
    /\ lastStep = "download_reports"
    /\ pc = "parse_violations"
    /\ monitoring_reports = Unset
    /\ failure = "ShellError"
    /\ localReports = {}
    /\ reportsWritten

====
